---- MODULE Spec2Model ----
(***************************************************************************)
(* Game-logic layer of newtonian-tetris (src/src/main.rs).                 *)
(*                                                                         *)
(* One frame runs the four game systems in the order main() registers      *)
(* them (they conflict on Game, so the executor keeps that order):         *)
(*   tetromino_movement, block_death_detection, tetromino_sleep_detection, *)
(*   update_health_bar.                                                    *)
(* Commands (spawn/despawn) are buffered and applied when the stage ends.  *)
(* The physics engine (bevy_rapier) is external: it owns every body's      *)
(* position and sleep flag, and its step is a nondeterministic choice.     *)
(*                                                                         *)
(* Lengths are in pixels (Transform units); a rigid body's position is the *)
(* Transform divided by the scale BLOCK_PX_SIZE, so positions that are     *)
(* whole pixels keep every comparison of the code exact.                   *)
(*                                                                         *)
(* Spec is the frame loop on the board n_lanes x n_rows.  WideSpec is the   *)
(* same frame loop on a board as wide as a piece is long (4 lanes), where  *)
(* the blocks of one piece fill a row.  SpawnSpec runs the piece spawner   *)
(* once, at startup, on boards of 4..MaxBoard lanes and rows, and keeps    *)
(* what it hands to the physics engine.                                    *)
(***************************************************************************)
EXTENDS Integers, Sequences, FiniteSets, TLC

\* ---- bounds of the model ------------------------------------------------
\* Board size (Game::default has 10 x 20; the model runs a smaller board).
n_lanes == 3
n_rows == 5
\* Pieces spawned in one behaviour (startup piece included); the behaviour ends
\* with the frame in which the last of them is spawned.
MaxPieces == 3
\* Largest board (lanes, rows) on which the piece spawner is run by SpawnSpec.
MaxBoard == 7

\* ---- program constants --------------------------------------------------
BLOCK_PX_SIZE == 30
MOVEMENT_FORCE == 20
TORQUE == 20

VARIABLES
    pc,                        \* the system that runs next in the frame
    stats,                     \* Game.stats
    current_tetromino_blocks,  \* Game.current_tetromino_blocks
    current_tetromino_joints,  \* Game.current_tetromino_joints
    blocks,                    \* world: live Block entities -> Transform y, body sleep flag
    joints,                    \* world: live joint entities -> the two block handles bound
    next_entity,               \* entity allocator: next fresh handle
    despawned,                 \* Commands: despawn requests buffered in this frame (handle -> count)
    input,                     \* Input<KeyCode> as polled by the step just taken
    force_calls,               \* apply_force requests issued by the step just taken
    torque_calls,              \* apply_torque requests issued by the step just taken
    projection_bottom,         \* OrthographicProjection.bottom of the camera
    board,                     \* Game.n_lanes, Game.n_rows
    body_builders,             \* RigidBodyBuilders of the blocks spawned in this frame
    joint_builders             \* JointBuilderComponents of the joints spawned in this frame

vars == <<pc, stats, current_tetromino_blocks, current_tetromino_joints, blocks,
          joints, next_entity, despawned, input, force_calls, torque_calls,
          projection_bottom, board, body_builders, joint_builders>>

\* ---- Shape catalog --------------------------------------------------------
TetrominoKind == {"I", "O", "T", "J", "L", "S", "Z"}

\* (variant: the O piece's last joint binds block 1 to itself)
layout_self_joint(kind) ==
    CASE kind = "I" -> [coords |-> << <<1, 1>>, <<1, 0>>, <<1, -1>>, <<1, -2>> >>,
                        joints |-> << <<0, 1>>, <<1, 2>>, <<2, 3>> >>]
      [] kind = "O" -> [coords |-> << <<0, 0>>, <<1, 0>>, <<1, -1>>, <<0, -1>> >>,
                        joints |-> << <<0, 1>>, <<1, 2>>, <<2, 3>>, <<1, 1>> >>]
      [] kind = "T" -> [coords |-> << <<0, 0>>, <<1, 0>>, <<2, 0>>, <<1, -1>> >>,
                        joints |-> << <<0, 1>>, <<1, 2>>, <<1, 3>> >>]
      [] kind = "J" -> [coords |-> << <<1, 0>>, <<1, -1>>, <<1, -2>>, <<0, -2>> >>,
                        joints |-> << <<0, 1>>, <<1, 2>>, <<2, 3>> >>]
      [] kind = "L" -> [coords |-> << <<1, 0>>, <<1, -1>>, <<1, -2>>, <<2, -2>> >>,
                        joints |-> << <<0, 1>>, <<1, 2>>, <<2, 3>> >>]
      [] kind = "S" -> [coords |-> << <<0, -1>>, <<1, -1>>, <<1, 0>>, <<2, 0>> >>,
                        joints |-> << <<0, 1>>, <<1, 2>>, <<2, 3>> >>]
      [] kind = "Z" -> [coords |-> << <<0, 0>>, <<1, 0>>, <<1, -1>>, <<2, -1>> >>,
                        joints |-> << <<0, 1>>, <<1, 2>>, <<2, 3>> >>]

\* coords and joints as in the source; joint indices are the 0-based indices
\* of the source into coords (coords[i + 1] here).
layout(kind) ==
    CASE kind = "I" -> [coords |-> << <<1, 1>>, <<1, 0>>, <<1, -1>>, <<1, -2>> >>,
                        joints |-> << <<0, 1>>, <<1, 2>>, <<2, 3>> >>]
      [] kind = "O" -> [coords |-> << <<0, 0>>, <<1, 0>>, <<1, -1>>, <<0, -1>> >>,
                        joints |-> << <<0, 1>>, <<1, 2>>, <<2, 3>>, <<1, 0>> >>]
      [] kind = "T" -> [coords |-> << <<0, 0>>, <<1, 0>>, <<2, 0>>, <<1, -1>> >>,
                        joints |-> << <<0, 1>>, <<1, 2>>, <<1, 3>> >>]
      [] kind = "J" -> [coords |-> << <<1, 0>>, <<1, -1>>, <<1, -2>>, <<0, -2>> >>,
                        joints |-> << <<0, 1>>, <<1, 2>>, <<2, 3>> >>]
      [] kind = "L" -> [coords |-> << <<1, 0>>, <<1, -1>>, <<1, -2>>, <<2, -2>> >>,
                        joints |-> << <<0, 1>>, <<1, 2>>, <<2, 3>> >>]
      [] kind = "S" -> [coords |-> << <<0, -1>>, <<1, -1>>, <<1, 0>>, <<2, 0>> >>,
                        joints |-> << <<0, 1>>, <<1, 2>>, <<2, 3>> >>]
      [] kind = "Z" -> [coords |-> << <<0, 0>>, <<1, 0>>, <<1, -1>>, <<2, -1>> >>,
                        joints |-> << <<0, 1>>, <<1, 2>>, <<2, 3>> >>]

\* ---- Stats ----------------------------------------------------------------
\* Stats::default()
StatsDefault ==
    [generated_blocks |-> 0, cleared_blocks |-> 0, lost_blocks |-> 0,
     lost_tetromino |-> FALSE]

\* Stats::health as the exact fraction num/den (den > 0) of the f32 it returns:
\* 0.0 is 0/1, 1.0 is 1/1 and 1.0 - lost/cleared is (cleared - lost)/cleared.
health(s) ==
    IF s.lost_tetromino THEN [num |-> 0, den |-> 1]
    ELSE IF s.cleared_blocks = 0
         THEN (IF s.lost_blocks > 0 THEN [num |-> 0, den |-> 1]
                                    ELSE [num |-> 1, den |-> 1])
         ELSE [num |-> s.cleared_blocks - s.lost_blocks, den |-> s.cleared_blocks]

\* ---- Board geometry -------------------------------------------------------
\* Game::floor_y, times the scale: -(n_rows as f32) * 0.5 block units.
Game_floor_y(game) == -((game.n_rows * BLOCK_PX_SIZE) \div 2)

\* Game::left_wall_x, times the scale.
Game_left_wall_x(game) == -((game.n_lanes * BLOCK_PX_SIZE) \div 2)

\* The board of the frame loop's model.
ModelBoard == [n_lanes |-> n_lanes, n_rows |-> n_rows]

\* A Game whose rows hold as many blocks as a piece has (layout: 4 coords).
WideBoard == [n_lanes |-> Len(layout("I").coords), n_rows |-> n_rows]

floor_y == Game_floor_y(ModelBoard)

left_wall_x == Game_left_wall_x(ModelBoard)

\* clear_filled_rows: row = floor(body.y - floor_y), body.y = y / BLOCK_PX_SIZE.
RowOf(y) == (y - Game_floor_y(board)) \div BLOCK_PX_SIZE

\* (variant: the limit is the viewport's lower bound itself)
outside_limit_no_margin == projection_bottom

\* block_death_detection: outside_limit = projection.bottom - BLOCK_PX_SIZE * 2.0
outside_limit == projection_bottom - BLOCK_PX_SIZE * 2

\* ---- helpers over the world and the command buffer ------------------------
NoEntities == [e \in {} |-> 0]

\* bool as i8
AsInt(b) == IF b THEN 1 ELSE 0

Range(seq) == {seq[i] : i \in DOMAIN seq}

\* Commands::despawn for every handle of S, added to the buffer d.
Despawn(d, S) ==
    [e \in (DOMAIN d) \cup S |->
        (IF e \in DOMAIN d THEN d[e] ELSE 0) + (IF e \in S THEN 1 ELSE 0)]

\* A step that polls no key and applies no force or torque.
NoKeys == [Left |-> FALSE, Right |-> FALSE, A |-> FALSE, D |-> FALSE]

NoMovement == input' = NoKeys /\ force_calls' = {} /\ torque_calls' = {}

\* ---- Piece spawner --------------------------------------------------------
\* spawn_tetromino line 253-260: the block handles, in coords order.
block_entities(first) == [i \in 1..4 |-> first + (i - 1)]

\* spawn_tetromino line 262-280: the joint handles, in joints order.
joint_entities(first, kind) ==
    [k \in 1..Len(layout(kind).joints) |-> first + 4 + (k - 1)]

\* The world after the spawn commands of spawn_tetromino: a block starts with the
\* default Transform (y = 0) and an awake body; joint k binds the blocks made
\* for the two indices of joint pair k.  The spawn commands are applied with the
\* rest of the buffer when the stage ends; no system that runs later in the frame
\* reads the blocks or the joints, so the new entities are entered at once.
SpawnedBlocks(b, first) ==
    [e \in (DOMAIN b) \cup Range(block_entities(first)) |->
        IF e \in DOMAIN b THEN b[e] ELSE [y |-> 0, sleeping |-> FALSE]]

SpawnedJoints(j, first, kind) ==
    LET je == joint_entities(first, kind)
        pairs == layout(kind).joints
    IN  [e \in (DOMAIN j) \cup Range(je) |->
            IF e \in DOMAIN j THEN j[e]
            ELSE LET k == CHOOSE n \in DOMAIN je : je[n] = e
                 IN  << block_entities(first)[pairs[k][1] + 1],
                        block_entities(first)[pairs[k][2] + 1] >>]

\* (variant: the counter grows by one per piece)
SpawnedStats_by_one(s) == [s EXCEPT !.generated_blocks = @ + 1]

\* spawn_tetromino line 282: generated_blocks += block_entities.len()
SpawnedStats(s) == [s EXCEPT !.generated_blocks = @ + Len(block_entities(0))]

\* ---- Piece spawner: what is handed to the physics engine -----------------------
\* (variant: the lane is counted from the board's centre lane)
spawn_lane_from_centre(game, x) == (game.n_lanes \div 2) + 1 + x

\* spawn_tetromino line 256: lane = (n_lanes as i32 / 2) - 1 + x
spawn_lane(game, x) == (game.n_lanes \div 2) - 1 + x

\* spawn_tetromino line 257: row = n_rows as i32 - 1 + y
spawn_row(game, y) == game.n_rows - 1 + y

\* spawn_block: the body's translation, the centre of cell (lane, row), times the
\* scale (0.5 block units are BLOCK_PX_SIZE \div 2 pixels).
BodyBuilders(game, kind) ==
    [i \in 1..4 |->
        LET l == spawn_lane(game, layout(kind).coords[i][1])
            r == spawn_row(game, layout(kind).coords[i][2])
        IN  [lane |-> l, row |-> r,
             x |-> Game_left_wall_x(game) + l * BLOCK_PX_SIZE + BLOCK_PX_SIZE \div 2,
             y |-> Game_floor_y(game) + r * BLOCK_PX_SIZE + BLOCK_PX_SIZE \div 2]]

\* spawn_tetromino line 265-266: the direction from block i to block j of joint k.
joint_dir(kind, k) ==
    LET i == layout(kind).joints[k][1]
        j == layout(kind).joints[k][2]
    IN  << layout(kind).coords[j + 1][1] - layout(kind).coords[i + 1][1],
           layout(kind).coords[j + 1][2] - layout(kind).coords[i + 1][2] >>

\* line 268: anchor_1 = (x_dir * 0.5, y_dir * 0.5), times the scale.
anchor_1(kind, k) ==
    << joint_dir(kind, k)[1] * (BLOCK_PX_SIZE \div 2),
       joint_dir(kind, k)[2] * (BLOCK_PX_SIZE \div 2) >>

\* (variant: the second anchor lies on the same side as the first)
anchor_2_same_side(kind, k) ==
    << joint_dir(kind, k)[1] * (BLOCK_PX_SIZE \div 2),
       joint_dir(kind, k)[2] * (BLOCK_PX_SIZE \div 2) >>

\* line 269: anchor_2 = (x_dir * -0.5, y_dir * -0.5), times the scale.
anchor_2(kind, k) ==
    << joint_dir(kind, k)[1] * (-(BLOCK_PX_SIZE \div 2)),
       joint_dir(kind, k)[2] * (-(BLOCK_PX_SIZE \div 2)) >>

\* line 272-276: BallJoint::new(anchor_1, anchor_2) between block_entities[i] and
\* block_entities[j]; body1 and body2 index body_builders.
JointBuilders(kind) ==
    [k \in 1..Len(layout(kind).joints) |->
        [body1 |-> layout(kind).joints[k][1] + 1,
         body2 |-> layout(kind).joints[k][2] + 1,
         anchor_1 |-> anchor_1(kind, k),
         anchor_2 |-> anchor_2(kind, k)]]

\* ---- the frame's schedule ------------------------------------------------------
\* (variant: the settle detector is registered before the loss tracker)
Schedule_settle_first ==
    << "tetromino_movement", "tetromino_sleep_detection", "block_death_detection",
       "update_health_bar" >>

\* The game systems in the order main() adds them; all four access Game, so the
\* executor runs them in this order.
Schedule ==
    << "tetromino_movement", "block_death_detection", "tetromino_sleep_detection",
       "update_health_bar" >>

\* The phase that follows a system: the next system, or the end of the stage.
SystemAfter(sys) ==
    LET i == CHOOSE k \in DOMAIN Schedule : Schedule[k] = sys
    IN  IF i < Len(Schedule) THEN Schedule[i + 1] ELSE "apply_commands"

\* ---- Init: the state after the startup systems ------------------------------
\* setup_initial_tetromino has spawned the first piece; the camera's projection
\* has a bottom drawn from Bottoms.
Bottoms == {0}

Startup(game) ==
    \E kind \in TetrominoKind, bottom \in Bottoms :
        /\ pc = Schedule[1]
        /\ stats = SpawnedStats(StatsDefault)
        /\ current_tetromino_blocks = Range(block_entities(1))
        /\ current_tetromino_joints = joint_entities(1, kind)
        /\ blocks = SpawnedBlocks(NoEntities, 1)
        /\ joints = SpawnedJoints(NoEntities, 1, kind)
        /\ next_entity = 1 + 4 + Len(layout(kind).joints)
        /\ despawned = NoEntities
        /\ input = NoKeys
        /\ force_calls = {}
        /\ torque_calls = {}
        /\ projection_bottom = bottom
        /\ board = game
        /\ body_builders = BodyBuilders(game, kind)
        /\ joint_builders = JointBuilders(kind)

Init == Startup(ModelBoard)

WideInit == Startup(WideBoard)

\* ---- tetromino_movement ----------------------------------------------------
\* (variant: every block of the world is pushed)
MovedBodies_every_block == DOMAIN blocks

\* The active-piece blocks whose entity and body still exist (line 331-332).
MovedBodies == {e \in current_tetromino_blocks : e \in DOMAIN blocks}

\* apply_force(.., true) and apply_torque(.., true): wake_up = true wakes the
\* body, so the bodies of S no longer sleep; positions change only in the
\* physics step.
WokenUp(b, S) ==
    [e \in DOMAIN b |-> IF e \in S THEN [b[e] EXCEPT !.sleeping = FALSE] ELSE b[e]]

TetrominoMovement ==
    /\ pc = "tetromino_movement"
    /\ \E keys \in [{"Left", "Right", "A", "D"} -> BOOLEAN] :
        LET movement == AsInt(keys.Right) - AsInt(keys.Left)
            torque == AsInt(keys.A) - AsInt(keys.D)
        IN  /\ input' = keys
            /\ force_calls' =
                 IF movement # 0
                 THEN {[body |-> e, x |-> movement * MOVEMENT_FORCE, y |-> 0,
                        wake_up |-> TRUE] : e \in MovedBodies}
                 ELSE {}
            /\ torque_calls' =
                 IF torque # 0
                 THEN {[body |-> e, torque |-> torque * TORQUE, wake_up |-> TRUE] :
                           e \in MovedBodies}
                 ELSE {}
            /\ blocks' =
                 IF movement # 0 \/ torque # 0
                 THEN WokenUp(blocks, MovedBodies)
                 ELSE blocks
    /\ pc' = SystemAfter("tetromino_movement")
    /\ UNCHANGED <<stats, current_tetromino_blocks, current_tetromino_joints,
                   joints, next_entity, despawned, projection_bottom, board,
                   body_builders, joint_builders>>

\* ---- block_death_detection ---------------------------------------------------
\* The Block entities below the limit (line 422-423).
OutsideBlocks == {e \in DOMAIN blocks : blocks[e].y < outside_limit}

\* (variant: the blocks below the limit leave the world at once)
BlockDeathDetection_immediate ==
    /\ pc = "block_death_detection"
    /\ stats' = [stats EXCEPT
                    !.lost_tetromino =
                        @ \/ (OutsideBlocks \cap current_tetromino_blocks # {}),
                    !.lost_blocks = @ + Cardinality(OutsideBlocks)]
    /\ blocks' = [e \in (DOMAIN blocks) \ OutsideBlocks |-> blocks[e]]
    /\ pc' = SystemAfter("block_death_detection")
    /\ NoMovement
    /\ UNCHANGED <<current_tetromino_blocks, current_tetromino_joints, joints,
                   next_entity, despawned, projection_bottom, board, body_builders,
                   joint_builders>>

BlockDeathDetection ==
    /\ pc = "block_death_detection"
    /\ stats' = [stats EXCEPT
                    !.lost_tetromino =
                        @ \/ (OutsideBlocks \cap current_tetromino_blocks # {}),
                    !.lost_blocks = @ + Cardinality(OutsideBlocks)]
    /\ despawned' = Despawn(despawned, OutsideBlocks)
    /\ pc' = SystemAfter("block_death_detection")
    /\ NoMovement
    /\ UNCHANGED <<current_tetromino_blocks, current_tetromino_joints, blocks, joints,
                   next_entity, projection_bottom, board, body_builders,
                   joint_builders>>

\* ---- clear_filled_rows -------------------------------------------------------
\* blocks_per_row[row]: the sleeping bodies whose row is in [0, n_rows).
\* (The floor also has a body, one unit below floor_y: its row is -1.)
\* (variant: moving bodies are bucketed too)
blocks_per_row_moving_too(row) ==
    {e \in DOMAIN blocks : RowOf(blocks[e].y) = row}

blocks_per_row(row) ==
    {e \in DOMAIN blocks : blocks[e].sleeping /\ RowOf(blocks[e].y) = row}

\* (variant: a row with at least n_lanes resting blocks counts as filled)
FilledRows_at_least ==
    {row \in 0..(board.n_rows - 1) :
        Cardinality(blocks_per_row(row)) >= board.n_lanes}

FilledRows ==
    {row \in 0..(board.n_rows - 1) :
        Cardinality(blocks_per_row(row)) = board.n_lanes}

ClearedBlocks == UNION {blocks_per_row(row) : row \in FilledRows}

ClearedStats(s) ==
    [s EXCEPT !.cleared_blocks = @ + board.n_lanes * Cardinality(FilledRows)]

\* ---- tetromino_sleep_detection -----------------------------------------------
\* (variant: a block that no longer exists counts as resting)
all_blocks_sleeping_missing_rests ==
    \A e \in current_tetromino_blocks : e \in DOMAIN blocks => blocks[e].sleeping

\* (variant: any block resting is enough)
all_blocks_sleeping_any ==
    \E e \in current_tetromino_blocks : e \in DOMAIN blocks /\ blocks[e].sleeping

all_blocks_sleeping ==
    \A e \in current_tetromino_blocks : e \in DOMAIN blocks /\ blocks[e].sleeping

\* health() > 0.0
HealthPositive(s) == health(s).num > 0

\* (variant: the spawn is decided on the stats before the rows are cleared)
Settle_spawn_before_clear ==
    LET cleared == ClearedStats(stats)
        d == Despawn(Despawn(despawned, Range(current_tetromino_joints)),
                     ClearedBlocks)
    IN  /\ despawned' = d
        /\ IF HealthPositive(stats)
           THEN \E kind \in TetrominoKind :
                  /\ stats' = SpawnedStats(cleared)
                  /\ blocks' = SpawnedBlocks(blocks, next_entity)
                  /\ joints' = SpawnedJoints(joints, next_entity, kind)
                  /\ current_tetromino_blocks' = Range(block_entities(next_entity))
                  /\ current_tetromino_joints' = joint_entities(next_entity, kind)
                  /\ next_entity' = next_entity + 4 + Len(layout(kind).joints)
                  /\ body_builders' = BodyBuilders(board, kind)
                  /\ joint_builders' = JointBuilders(kind)
           ELSE /\ stats' = cleared
                /\ UNCHANGED <<blocks, joints, current_tetromino_blocks,
                               current_tetromino_joints, next_entity,
                               body_builders, joint_builders>>

\* The settle branch (line 360-370): joints despawned, rows cleared, then the
\* next piece if health > 0.
Settle ==
    LET cleared == ClearedStats(stats)
        d == Despawn(Despawn(despawned, Range(current_tetromino_joints)),
                     ClearedBlocks)
    IN  /\ despawned' = d
        /\ IF HealthPositive(cleared)
           THEN \E kind \in TetrominoKind :
                  /\ stats' = SpawnedStats(cleared)
                  /\ blocks' = SpawnedBlocks(blocks, next_entity)
                  /\ joints' = SpawnedJoints(joints, next_entity, kind)
                  /\ current_tetromino_blocks' = Range(block_entities(next_entity))
                  /\ current_tetromino_joints' = joint_entities(next_entity, kind)
                  /\ next_entity' = next_entity + 4 + Len(layout(kind).joints)
                  /\ body_builders' = BodyBuilders(board, kind)
                  /\ joint_builders' = JointBuilders(kind)
           ELSE /\ stats' = cleared
                /\ UNCHANGED <<blocks, joints, current_tetromino_blocks,
                               current_tetromino_joints, next_entity,
                               body_builders, joint_builders>>

TetrominoSleepDetection ==
    /\ pc = "tetromino_sleep_detection"
    /\ IF all_blocks_sleeping
       THEN Settle
       ELSE UNCHANGED <<stats, current_tetromino_blocks, current_tetromino_joints,
                        blocks, joints, next_entity, despawned, body_builders,
                        joint_builders>>
    /\ pc' = SystemAfter("tetromino_sleep_detection")
    /\ NoMovement
    /\ UNCHANGED <<projection_bottom, board>>

\* ---- update_health_bar -------------------------------------------------------
\* Reads health and moves the bar's sprite; no game state changes.
UpdateHealthBar ==
    /\ pc = "update_health_bar"
    /\ pc' = SystemAfter("update_health_bar")
    /\ NoMovement
    /\ UNCHANGED <<stats, current_tetromino_blocks, current_tetromino_joints, blocks,
                   joints, next_entity, despawned, projection_bottom, board,
                   body_builders, joint_builders>>

\* ---- end of the stage: the command buffer is applied --------------------------
ApplyCommands ==
    /\ pc = "apply_commands"
    /\ blocks' = [e \in (DOMAIN blocks) \ (DOMAIN despawned) |-> blocks[e]]
    /\ joints' = [e \in (DOMAIN joints) \ (DOMAIN despawned) |-> joints[e]]
    /\ despawned' = NoEntities
    /\ pc' = "physics_active"
    /\ NoMovement
    /\ UNCHANGED <<stats, current_tetromino_blocks, current_tetromino_joints,
                   next_entity, projection_bottom, board, body_builders,
                   joint_builders>>

\* ---- the physics step (external) -----------------------------------------------
\* The plugin first turns the builders spawned in the last frame into bodies and
\* joints of the engine (the builder components are consumed), then steps.
\* A behaviour is followed up to the frame that spawns piece MaxPieces: the
\* engine does not step after it.
\* What the engine can report for a body after a step: Transform y and sleep flag.
\*   -60 exactly at outside_limit (row 0), awake
\*   -30 one block below the viewport's lower bound (row 1), asleep
\*   floor_y + n_rows * BLOCK_PX_SIZE: the first row above the board (row
\*       n_rows, outside [0, n_rows)), asleep
\*   -75 below outside_limit (row 0), asleep or awake
BodyStates ==
    << [y |-> -60, sleeping |-> FALSE],
       [y |-> -30, sleeping |-> TRUE],
       [y |-> floor_y + n_rows * BLOCK_PX_SIZE, sleeping |-> TRUE],
       [y |-> -75, sleeping |-> TRUE],
       [y |-> -75, sleeping |-> FALSE] >>

\* The game code treats the blocks of the active piece alike, and the other
\* blocks alike, so a step's outcome is recorded up to a permutation inside
\* each of the two groups: body states are handed out in handle order,
\* nondecreasing in their index in BodyStates.
RECURSIVE NonDecreasing(_, _)
NonDecreasing(k, m) ==
    IF k = 0 THEN {<< >>}
    ELSE UNION {{Append(s, v) : s \in NonDecreasing(k - 1, v)} : v \in 1..m}

ActiveBodies == {e \in DOMAIN blocks : e \in current_tetromino_blocks}
PlacedBodies == {e \in DOMAIN blocks : e \notin current_tetromino_blocks}

Stepped(group, s) ==
    [e \in DOMAIN blocks |->
        IF e \in group
        THEN BodyStates[s[Cardinality({x \in group : x <= e})]]
        ELSE blocks[e]]

PhysicsStepActive ==
    /\ pc = "physics_active"
    /\ stats.generated_blocks < 4 * MaxPieces
    /\ \E s \in NonDecreasing(Cardinality(ActiveBodies), Len(BodyStates)) :
          blocks' = Stepped(ActiveBodies, s)
    /\ body_builders' = << >>
    /\ joint_builders' = << >>
    /\ pc' = "physics_placed"
    /\ NoMovement
    /\ UNCHANGED <<stats, current_tetromino_blocks, current_tetromino_joints, joints,
                   next_entity, despawned, projection_bottom, board>>

PhysicsStepPlaced ==
    /\ pc = "physics_placed"
    /\ \E s \in NonDecreasing(Cardinality(PlacedBodies), Len(BodyStates)) :
          blocks' = Stepped(PlacedBodies, s)
    /\ pc' = Schedule[1]
    /\ NoMovement
    /\ UNCHANGED <<stats, current_tetromino_blocks, current_tetromino_joints, joints,
                   next_entity, despawned, projection_bottom, board, body_builders,
                   joint_builders>>

Next ==
    \/ TetrominoMovement
    \/ BlockDeathDetection
    \/ TetrominoSleepDetection
    \/ UpdateHealthBar
    \/ ApplyCommands
    \/ PhysicsStepActive
    \/ PhysicsStepPlaced

Spec == Init /\ [][Next]_vars

\* The frame loop on the 4-lane board.
WideSpec == WideInit /\ [][Next]_vars

\* ---- the steps of a frame, as seen from a pair of states ---------------------
MovementStep == pc = "tetromino_movement" /\ pc' = "block_death_detection"
DeathStep == pc = "block_death_detection" /\ pc' = "tetromino_sleep_detection"
SleepStep == pc = "tetromino_sleep_detection" /\ pc' = "update_health_bar"

\* Despawn requests the buffer d holds for the handle e.
Requests(d, e) == IF e \in DOMAIN d THEN d[e] ELSE 0

\* The handles that get a despawn request in the step.
NewlyDespawned ==
    {e \in DOMAIN despawned' : Requests(despawned', e) > Requests(despawned, e)}

\* The active-piece blocks that exist and report resting.
RestingActive ==
    {e \in current_tetromino_blocks : e \in DOMAIN blocks /\ blocks[e].sleeping}

\* ---- C1 ---------------------------------------------------------------------
\* C1: tetromino_sleep_detection settles (despawns joints, clears rows, spawns)
\* only when all four blocks of the active piece report resting; when at least
\* one does not, its step issues no despawn, spawns nothing and leaves the stats
\* and the active-piece block and joint sets unchanged.
C1_SettleOnlyWhenAllRest ==
    [][SleepStep =>
        /\ (RestingActive # current_tetromino_blocks) =>
              /\ despawned' = despawned
              /\ stats' = stats
              /\ blocks' = blocks
              /\ joints' = joints
              /\ next_entity' = next_entity
              /\ current_tetromino_blocks' = current_tetromino_blocks
              /\ current_tetromino_joints' = current_tetromino_joints
        /\ (NewlyDespawned # {} \/ stats' # stats \/ next_entity' # next_entity) =>
              Cardinality(RestingActive) = 4]_vars

\* Three blocks of the active piece rest, one falls, and the settle detector has
\* run without requesting anything.
C1_Witness ==
    /\ pc = "update_health_bar"
    /\ Cardinality(MovedBodies) = 4
    /\ Cardinality(RestingActive) = 3
    /\ despawned = NoEntities
    /\ \A e \in Range(current_tetromino_joints) : e \in DOMAIN joints

\* ---- C2 ---------------------------------------------------------------------
\* The resting blocks whose centre lies in the band of row r.
RestingInRow(r) ==
    {e \in DOMAIN blocks :
        /\ blocks[e].sleeping
        /\ floor_y + r * BLOCK_PX_SIZE <= blocks[e].y
        /\ blocks[e].y < floor_y + (r + 1) * BLOCK_PX_SIZE}

FullRows ==
    {r \in 0..(n_rows - 1) : Cardinality(RestingInRow(r)) = board.n_lanes}

\* C2: one pass of clear_filled_rows despawns the blocks of row r if and only if
\* exactly n_lanes resting blocks have row index r (fewer or more leave the row
\* untouched); all full rows go in the same pass and cleared_blocks grows by
\* n_lanes for each of them.
C2_ClearIffExactlyFull ==
    [][(SleepStep /\ RestingActive = current_tetromino_blocks) =>
        /\ \A r \in 0..(n_rows - 1) :
              IF Cardinality(RestingInRow(r)) = n_lanes
              THEN \A e \in RestingInRow(r) :
                      Requests(despawned', e) = Requests(despawned, e) + 1
              ELSE \A e \in RestingInRow(r) :
                      Requests(despawned', e) = Requests(despawned, e)
        /\ stats'.cleared_blocks =
              stats.cleared_blocks + n_lanes * Cardinality(FullRows)]_vars

\* After a pass: one row was cleared while another row, holding n_lanes + 1
\* resting blocks, was left alone.
C2_Witness ==
    /\ pc = "update_health_bar"
    /\ \E r1, r2 \in 0..(n_rows - 1) :
          /\ Cardinality(RestingInRow(r1)) = n_lanes
          /\ RestingInRow(r1) \subseteq DOMAIN despawned
          /\ Cardinality(RestingInRow(r2)) = n_lanes + 1
          /\ RestingInRow(r2) \cap DOMAIN despawned = {}
    /\ stats.cleared_blocks = n_lanes

\* ---- C3 ---------------------------------------------------------------------
\* C3 as stated: block_death_detection never removes a block at or above the
\* viewport's lower bound, and always removes a block one block size below it.
C3_OneUnitBelowRemoved ==
    [][DeathStep =>
        \A e \in DOMAIN blocks :
            /\ (blocks[e].y >= projection_bottom) => e \notin NewlyDespawned
            /\ (blocks[e].y = projection_bottom - BLOCK_PX_SIZE) =>
                  e \in NewlyDespawned]_vars

\* C3 (amended): block_death_detection never removes a block at or above the
\* viewport's lower bound minus two block sizes, and always removes a block
\* below that limit, adding one to lost_blocks for it.
C3_RemovedBelowMargin ==
    [][DeathStep =>
        LET limit == projection_bottom - 2 * BLOCK_PX_SIZE
            below == {e \in DOMAIN blocks : blocks[e].y < limit}
        IN  /\ \A e \in DOMAIN blocks :
                  IF e \in below
                  THEN Requests(despawned', e) = Requests(despawned, e) + 1
                  ELSE Requests(despawned', e) = Requests(despawned, e)
            /\ stats'.lost_blocks = stats.lost_blocks + Cardinality(below)]_vars

\* After the loss tracker ran: a block exactly at the limit was kept, a block
\* below it was removed and counted.
C3_Witness ==
    /\ pc = "tetromino_sleep_detection"
    /\ \E e1, e2 \in DOMAIN blocks :
          /\ blocks[e1].y = projection_bottom - 2 * BLOCK_PX_SIZE
          /\ e1 \notin DOMAIN despawned
          /\ blocks[e2].y < projection_bottom - 2 * BLOCK_PX_SIZE
          /\ e2 \in DOMAIN despawned
    /\ stats.lost_blocks = 1

\* ---- C4 ---------------------------------------------------------------------
\* The frame loop never stops by itself.
FairSpec == Spec /\ WF_vars(Next)

\* C4: game-over is never permanent; whenever the active piece is lost, the
\* game later restarts with the game-over marker reset.
C4_GameOverEnds == stats.lost_tetromino ~> ~stats.lost_tetromino

\* ---- C5 ---------------------------------------------------------------------
\* The active piece has not settled yet: its joints still exist.
ActivePieceLive == \A j \in Range(current_tetromino_joints) : j \in DOMAIN joints

\* C5: lost_tetromino becomes set in a frame if and only if the loss tracker
\* destroys, in that frame, a block of the live active piece (spawned and not yet
\* settled); losing a block of a settled piece never sets it.
C5_GameOverIffLiveActiveLost ==
    [][(~stats.lost_tetromino /\ stats'.lost_tetromino)
         <=> /\ DeathStep
             /\ ~stats.lost_tetromino
             /\ ActivePieceLive
             /\ NewlyDespawned \cap current_tetromino_blocks # {}]_vars

\* ---- C6 ---------------------------------------------------------------------
\* The one-to-one orderings of a set of four handles.
Orderings(S) == {f \in [1..4 -> S] : \A a, b \in 1..4 : f[a] = f[b] => a = b}

\* C6: every spawn creates exactly 4 new, pairwise distinct block handles and one
\* joint per joint pair of the kind's layout, joint k binding the blocks made for
\* the two indices of pair k; it adds exactly 4 to generated_blocks and makes these
\* blocks and joints the active piece; the active piece always has 4 blocks.
C6_SpawnMakesFourBlocks ==
    [][/\ Cardinality(current_tetromino_blocks) = 4
       /\ Cardinality(current_tetromino_blocks') = 4
       /\ (\/ stats'.generated_blocks # stats.generated_blocks
           \/ next_entity' # next_entity
           \/ current_tetromino_blocks' # current_tetromino_blocks
           \/ current_tetromino_joints' # current_tetromino_joints
           \/ ~(DOMAIN blocks' \subseteq DOMAIN blocks)
           \/ ~(DOMAIN joints' \subseteq DOMAIN joints))
          => LET new_blocks == (DOMAIN blocks') \ (DOMAIN blocks)
                 new_joints == (DOMAIN joints') \ (DOMAIN joints)
             IN  /\ SleepStep
                 /\ Cardinality(new_blocks) = 4
                 /\ new_blocks \cap new_joints = {}
                 /\ \A e \in new_blocks \cup new_joints : e >= next_entity
                 /\ stats'.generated_blocks = stats.generated_blocks + 4
                 /\ current_tetromino_blocks' = new_blocks
                 /\ Range(current_tetromino_joints') = new_joints
                 /\ Cardinality(new_joints) = Len(current_tetromino_joints')
                 /\ \E kind \in TetrominoKind, made \in Orderings(new_blocks) :
                       /\ Len(current_tetromino_joints') = Len(layout(kind).joints)
                       /\ \A k \in DOMAIN layout(kind).joints :
                             joints'[current_tetromino_joints'[k]] =
                                 << made[layout(kind).joints[k][1] + 1],
                                    made[layout(kind).joints[k][2] + 1] >>]_vars

\* A second piece has just been spawned next to the settled first one.
C6_Witness ==
    /\ pc = "update_health_bar"
    /\ stats.generated_blocks = 8
    /\ Cardinality(DOMAIN blocks) = 8
    /\ current_tetromino_blocks \subseteq DOMAIN blocks
    /\ \A e \in current_tetromino_blocks : e \notin DOMAIN despawned
    /\ Len(current_tetromino_joints) = 4

\* ---- C7 ---------------------------------------------------------------------
\* C7: for each of the 7 kinds, layout(kind) has exactly 4 coordinate pairs and
\* every joint pair (i, j) has i # j and both indices in 0..3; so every joint in
\* the world binds two different blocks.
C7_LayoutWellFormed ==
    /\ \A kind \in TetrominoKind :
          LET l == layout(kind)
          IN  /\ Len(l.coords) = 4
              /\ \A c \in DOMAIN l.coords : Len(l.coords[c]) = 2
              /\ \A k \in DOMAIN l.joints :
                    /\ Len(l.joints[k]) = 2
                    /\ l.joints[k][1] # l.joints[k][2]
                    /\ l.joints[k][1] \in 0..3
                    /\ l.joints[k][2] \in 0..3
    /\ Cardinality(TetrominoKind) = 7
    /\ \A j \in DOMAIN joints : joints[j][1] # joints[j][2]

\* A piece with four joints (the O piece) is in the world, each joint binding two
\* blocks of the active piece.
C7_Witness ==
    /\ Len(current_tetromino_joints) = 4
    /\ \A k \in 1..4 :
          /\ current_tetromino_joints[k] \in DOMAIN joints
          /\ joints[current_tetromino_joints[k]][1] \in current_tetromino_blocks
          /\ joints[current_tetromino_joints[k]][2] \in current_tetromino_blocks

\* ---- C8 ---------------------------------------------------------------------
\* C8: with lateral = right - left and spin = ccw - cw, tetromino_movement applies
\* the force lateral * MOVEMENT_FORCE to every existing block of the active piece
\* when lateral # 0 and none when lateral = 0, the torque spin * TORQUE to every
\* existing block of the active piece when spin # 0 and none when spin = 0, and
\* nothing to any other block; no other system applies a force or torque.
C8_UniformForceOnActivePiece ==
    LET lateral == AsInt(input.Right) - AsInt(input.Left)
        spin == AsInt(input.A) - AsInt(input.D)
        active == current_tetromino_blocks \cap DOMAIN blocks
    IN  IF pc = "block_death_detection"
        THEN /\ lateral \in {-1, 0, 1}
             /\ spin \in {-1, 0, 1}
             /\ \A c \in force_calls \cup torque_calls : c.body \in active
             /\ IF lateral # 0
                THEN \A e \in active :
                        {c \in force_calls : c.body = e} =
                            {[body |-> e, x |-> lateral * MOVEMENT_FORCE, y |-> 0,
                              wake_up |-> TRUE]}
                ELSE force_calls = {}
             /\ IF spin # 0
                THEN \A e \in active :
                        {c \in torque_calls : c.body = e} =
                            {[body |-> e, torque |-> spin * TORQUE, wake_up |-> TRUE]}
                ELSE torque_calls = {}
        ELSE force_calls = {} /\ torque_calls = {}

\* Left pressed alone, both rotation keys pressed, placed blocks lying around: the
\* four blocks of the active piece, and only they, got the leftward force, and no
\* block got a torque.
C8_Witness ==
    /\ pc = "block_death_detection"
    /\ input.Left /\ ~input.Right /\ input.A /\ input.D
    /\ Cardinality(force_calls) = 4
    /\ \A c \in force_calls : c.x = -MOVEMENT_FORCE
    /\ torque_calls = {}
    /\ (DOMAIN blocks) \ current_tetromino_blocks # {}

\* ---- C9 ---------------------------------------------------------------------
\* C9: a settle despawns the joints of the settling piece, then clears rows, then
\* decides on the spawn: the next piece is spawned in the same step if and only
\* if the health of the stats after this step's row clearing is > 0.  When the
\* resting blocks of the settling piece fill a row of n_lanes blocks and health is
\* > 0, that row is cleared, cleared_blocks grows by n_lanes for it, its blocks
\* are despawned and the new piece is spawned at once.
C9_SettleOrderAndSpawn ==
    [][(SleepStep /\ RestingActive = current_tetromino_blocks) =>
        LET spawned == stats'.generated_blocks # stats.generated_blocks
            lost == stats.lost_blocks
            cleared == stats'.cleared_blocks
            positive == /\ ~stats.lost_tetromino
                        /\ IF cleared = 0 THEN lost = 0 ELSE lost < cleared
        IN  /\ \A j \in Range(current_tetromino_joints) :
                  Requests(despawned', j) = Requests(despawned, j) + 1
            /\ \A e \in DOMAIN despawned' :
                  e \in DOMAIN blocks \/ e \in Range(current_tetromino_joints)
                      \/ e \in DOMAIN despawned
            /\ cleared =
                  stats.cleared_blocks + board.n_lanes * Cardinality(FullRows)
            /\ spawned <=> positive
            /\ \A r \in FullRows :
                  (RestingInRow(r) \cap current_tetromino_blocks # {} /\ positive)
                      => /\ RestingInRow(r) \subseteq NewlyDespawned
                         /\ spawned
                         /\ current_tetromino_blocks' \cap DOMAIN blocks = {}
                         /\ current_tetromino_blocks' \subseteq DOMAIN blocks']_vars

\* The joints whose despawn is requested and which are still in the world: the
\* joints of the piece that settled in this frame.
SettledJoints == DOMAIN despawned \cap DOMAIN joints

\* On the 4-lane board the second piece has just settled with its 4 blocks
\* filling a row, after a block was lost: before the row was cleared the health
\* was 0 (nothing cleared, one block lost), the clearing of this frame made it
\* positive, the 4 blocks of the row (all of the settled piece) are despawned and
\* the third piece was spawned in the same step.
C9_Witness ==
    /\ pc = "update_health_bar"
    /\ board.n_lanes = 4
    /\ stats.generated_blocks = 12
    /\ stats.cleared_blocks = 4
    /\ stats.lost_blocks = 1
    /\ ~stats.lost_tetromino
    /\ SettledJoints # {}
    /\ \E r \in FullRows :
          /\ Cardinality(RestingInRow(r)) = 4
          /\ RestingInRow(r) \subseteq DOMAIN despawned
          /\ \A j \in SettledJoints :
                joints[j][1] \in RestingInRow(r) /\ joints[j][2] \in RestingInRow(r)
    /\ \A e \in current_tetromino_blocks :
          /\ e \in DOMAIN blocks
          /\ e \notin DOMAIN despawned
          /\ \A j \in SettledJoints : e # joints[j][1] /\ e # joints[j][2]

\* ---- C10 --------------------------------------------------------------------
\* C10: the health of the stats lies in [0, 1] in every reachable state.
C10_HealthClamped ==
    /\ 0 <= health(stats).num
    /\ health(stats).num <= health(stats).den

\* ---- C11 --------------------------------------------------------------------
\* The blocks, resting or moving, whose centre lies in the band of row r.
InRow(r) ==
    {e \in DOMAIN blocks :
        /\ floor_y + r * BLOCK_PX_SIZE <= blocks[e].y
        /\ blocks[e].y < floor_y + (r + 1) * BLOCK_PX_SIZE}

\* The blocks whose centre lies below row 0 or above row n_rows - 1.
OffBoard ==
    {e \in DOMAIN blocks :
        \/ blocks[e].y < floor_y
        \/ blocks[e].y >= floor_y + n_rows * BLOCK_PX_SIZE}

\* C11: row clearing never despawns a block that is not reported resting, nor a
\* block whose row lies outside [0, n_rows); such blocks are not counted either:
\* cleared_blocks grows by n_lanes for exactly the rows holding n_lanes resting
\* blocks, and a row holding n_lanes blocks of which one still moves is left alone.
C11_OnlyRestingOnBoardCleared ==
    [][SleepStep =>
        /\ \A e \in DOMAIN blocks :
              (~blocks[e].sleeping \/ e \in OffBoard)
                  => Requests(despawned', e) = Requests(despawned, e)
        /\ stats'.cleared_blocks - stats.cleared_blocks \in
              {0, n_lanes * Cardinality(FullRows)}
        /\ \A r \in 0..(n_rows - 1) :
              (Cardinality(InRow(r)) = n_lanes /\ InRow(r) # RestingInRow(r))
                  => \A e \in InRow(r) :
                        Requests(despawned', e) = Requests(despawned, e)]_vars

\* A settle has just cleared one full row; a resting block above the board was
\* left alone, and so was a row of n_lanes blocks of which one still moves (its
\* resting block carries the loss tracker's request only).
C11_Witness ==
    /\ pc = "update_health_bar"
    /\ stats.cleared_blocks = n_lanes
    /\ \E r \in FullRows : RestingInRow(r) \subseteq DOMAIN despawned
    /\ \E e \in OffBoard : blocks[e].sleeping /\ e \notin DOMAIN despawned
    /\ \E r \in 0..(n_rows - 1) :
          /\ Cardinality(InRow(r)) = n_lanes
          /\ \E e \in InRow(r) : ~blocks[e].sleeping
          /\ \E e \in RestingInRow(r) : Requests(despawned, e) = 1

\* ---- C12 --------------------------------------------------------------------
\* The frame's command buffer has been applied: the tick is over.
EndOfTick == pc \in {"physics_active", "physics_placed", "tetromino_movement"}

\* C12: at the end of every tick, every joint that still exists binds two blocks
\* that both still exist; in particular no joint of a block destroyed by the loss
\* tracker survives.
C12_JointsBindLiveBlocks ==
    EndOfTick =>
        \A j \in DOMAIN joints :
            joints[j][1] \in DOMAIN blocks /\ joints[j][2] \in DOMAIN blocks

\* ---- C13 --------------------------------------------------------------------
\* The piece recorded as active has settled in an earlier tick and no piece was
\* spawned after it: its joints are gone from the world.
SettledWithoutSpawn ==
    \E j \in Range(current_tetromino_joints) : j \notin DOMAIN joints

\* C13: after a settle at which health is not > 0 the board is piece-less: in the
\* following ticks tetromino_movement applies no force and no torque, and
\* tetromino_sleep_detection despawns no joint, clears no row and spawns nothing,
\* whatever the keys and the rest flags are.
C13_PieceLessAfterSettle ==
    [][SettledWithoutSpawn =>
        /\ MovementStep => (force_calls' = {} /\ torque_calls' = {})
        /\ SleepStep => /\ despawned' = despawned
                        /\ stats' = stats
                        /\ next_entity' = next_entity]_vars

\* ---- C14 --------------------------------------------------------------------
\* The step counts a lost block or sets the game-over marker.
LossEffect ==
    \/ stats'.lost_blocks # stats.lost_blocks
    \/ stats'.lost_tetromino # stats.lost_tetromino

\* The step settles the active piece: it requests the despawn of its joints.
SettleEffect ==
    \E j \in Range(current_tetromino_joints) :
        Requests(despawned', j) > Requests(despawned, j)

\* C14 as stated: in every tick the settle detector (with row clearing) runs
\* before the loss tracker: when a piece settles, the tick's loss detection has
\* not yet requested or counted anything.
C14_SettleBeforeLoss ==
    [][SettleEffect => despawned = NoEntities]_vars

\* C14 (amended): in every tick the systems run in the order movement
\* controller, loss tracker, settle detector (with row clearing), health bar
\* presenter: losses are counted before anything else is requested in the tick,
\* and when a piece settles, every block below the limit has already been
\* requested for removal by the tick's loss detection.
C14_LossBeforeSettle ==
    [][/\ pc = "tetromino_movement" => pc' = "block_death_detection"
       /\ pc = "block_death_detection" => pc' = "tetromino_sleep_detection"
       /\ pc = "tetromino_sleep_detection" => pc' = "update_health_bar"
       /\ pc = "update_health_bar" => pc' = "apply_commands"
       /\ LossEffect => despawned = NoEntities
       /\ SettleEffect =>
              \A e \in DOMAIN blocks :
                  blocks[e].y < projection_bottom - 2 * BLOCK_PX_SIZE
                      => Requests(despawned, e) >= 1]_vars

\* The second piece has settled in the tick in which a block of the first piece
\* was lost: the settle saw the loss (health 0) and spawned nothing.
C14_Witness ==
    /\ pc = "update_health_bar"
    /\ stats = [generated_blocks |-> 8, cleared_blocks |-> 0, lost_blocks |-> 1,
                lost_tetromino |-> FALSE]
    /\ \A j \in Range(current_tetromino_joints) : Requests(despawned, j) = 1
    /\ \E e \in DOMAIN blocks :
          /\ e \notin current_tetromino_blocks
          /\ blocks[e].y < projection_bottom - 2 * BLOCK_PX_SIZE
          /\ Requests(despawned, e) = 1

\* ---- C15 --------------------------------------------------------------------
\* C15: a joint is requested for removal only while it exists and at most once,
\* in the tick in which its piece settles (never again afterwards, also after a
\* settle that spawns nothing), and not before all four blocks of its piece rest.
C15_JointDestroyedOnce ==
    [][\A j \in DOMAIN despawned' :
          (j \notin DOMAIN blocks /\ Requests(despawned', j) > Requests(despawned, j))
              => /\ j \in DOMAIN joints
                 /\ Requests(despawned, j) = 0
                 /\ Cardinality(RestingActive) = 4]_vars

\* ---- C16 --------------------------------------------------------------------
\* The active-piece blocks whose entity no longer exists.
MissingActive == {e \in current_tetromino_blocks : e \notin DOMAIN blocks}

\* C16: a block of the active piece that no longer exists counts as not resting
\* and stops no system: while at least one block of the active piece has been
\* destroyed, tetromino_sleep_detection takes no settle action (no despawn, no
\* row clearing, no spawn) and the frame goes on to the next system;
\* tetromino_movement pushes the blocks that are left.
C16_MissingBlockNeverSettles ==
    [][MissingActive # {} =>
        /\ SleepStep <=> pc = "tetromino_sleep_detection"
        /\ SleepStep => /\ despawned' = despawned
                        /\ stats' = stats
                        /\ blocks' = blocks
                        /\ joints' = joints
                        /\ next_entity' = next_entity
                        /\ current_tetromino_blocks' = current_tetromino_blocks
                        /\ current_tetromino_joints' = current_tetromino_joints
        /\ MovementStep <=> pc = "tetromino_movement"
        /\ MovementStep =>
              \A c \in force_calls' \cup torque_calls' : c.body \in DOMAIN blocks]_vars

\* One block of the active piece is gone, the three that are left all rest, and
\* the settle detector has run without requesting anything: the joints of the
\* piece are still there.
C16_Witness ==
    /\ pc = "update_health_bar"
    /\ Cardinality(MissingActive) = 1
    /\ Cardinality(RestingActive) = 3
    /\ despawned = NoEntities
    /\ \A j \in Range(current_tetromino_joints) : j \in DOMAIN joints

\* ---- C17 --------------------------------------------------------------------
\* C17: a despawn requested during a tick takes effect when the tick ends: while
\* the game systems run, no block leaves the world, and a block marked for
\* removal keeps its position and rest flag, so it is still seen by the systems
\* that run later in the tick (a lost block that rests still counts for the
\* settle decision); at the end of the tick exactly the marked entities are
\* removed, nothing stays pending, and a removed handle never comes back.
C17_DestructionDeferred ==
    [][/\ pc \in Range(Schedule) =>
              \A e \in DOMAIN blocks :
                  /\ e \in DOMAIN blocks'
                  /\ e \in DOMAIN despawned' => blocks'[e] = blocks[e]
       /\ (SleepStep /\ RestingActive = current_tetromino_blocks) => SettleEffect
       /\ pc = "apply_commands" =>
              /\ DOMAIN blocks' = (DOMAIN blocks) \ (DOMAIN despawned)
              /\ DOMAIN joints' = (DOMAIN joints) \ (DOMAIN despawned)
              /\ despawned' = NoEntities
       /\ EndOfTick => despawned = NoEntities
       /\ \A e \in (DOMAIN blocks') \ (DOMAIN blocks) : e >= next_entity]_vars

\* A resting block of the active piece was marked by the loss tracker, and the
\* settle detector, later in the same tick, still saw it resting: the piece has
\* settled.
C17_Witness ==
    /\ pc = "update_health_bar"
    /\ \E e \in current_tetromino_blocks :
          /\ e \in DOMAIN blocks
          /\ blocks[e].sleeping
          /\ blocks[e].y < projection_bottom - 2 * BLOCK_PX_SIZE
          /\ Requests(despawned, e) >= 1
    /\ \A j \in Range(current_tetromino_joints) :
          j \in DOMAIN joints /\ Requests(despawned, j) = 1

\* ---- C18 --------------------------------------------------------------------
\* C18: no block is removed twice: a block is requested for removal, and counted,
\* by at most one of row clearing and the loss tracker, so that
\* cleared_blocks + lost_blocks <= generated_blocks in every reachable state.
C18_NoBlockRemovedTwice ==
    /\ \A e \in DOMAIN blocks : Requests(despawned, e) <= 1
    /\ stats.cleared_blocks + stats.lost_blocks <= stats.generated_blocks

\* ---- the piece spawner on boards of any size ----------------------------------
\* The boards the spawner is run on: at least 4 lanes and 4 rows.
Boards == [n_lanes : 4..MaxBoard, n_rows : 4..MaxBoard]

\* The state after Game::default() and setup_game, for a board of Boards: no
\* piece yet.
SpawnInit ==
    \E game \in Boards, bottom \in Bottoms :
        /\ pc = "setup_initial_tetromino"
        /\ stats = StatsDefault
        /\ current_tetromino_blocks = {}
        /\ current_tetromino_joints = << >>
        /\ blocks = NoEntities
        /\ joints = NoEntities
        /\ next_entity = 1
        /\ despawned = NoEntities
        /\ input = NoKeys
        /\ force_calls = {}
        /\ torque_calls = {}
        /\ projection_bottom = bottom
        /\ board = game
        /\ body_builders = << >>
        /\ joint_builders = << >>

\* setup_initial_tetromino: spawn_tetromino with a kind drawn at random.
SetupInitialTetromino ==
    /\ pc = "setup_initial_tetromino"
    /\ \E kind \in TetrominoKind :
          /\ stats' = SpawnedStats(stats)
          /\ blocks' = SpawnedBlocks(blocks, next_entity)
          /\ joints' = SpawnedJoints(joints, next_entity, kind)
          /\ current_tetromino_blocks' = Range(block_entities(next_entity))
          /\ current_tetromino_joints' = joint_entities(next_entity, kind)
          /\ next_entity' = next_entity + 4 + Len(layout(kind).joints)
          /\ body_builders' = BodyBuilders(board, kind)
          /\ joint_builders' = JointBuilders(kind)
    /\ pc' = Schedule[1]
    /\ NoMovement
    /\ UNCHANGED <<despawned, projection_bottom, board>>

SpawnSpec == SpawnInit /\ [][SetupInitialTetromino]_vars

\* ---- C19 --------------------------------------------------------------------
\* The absolute value.
Abs(n) == IF n < 0 THEN -n ELSE n

\* The blocks bound to the blocks of S by a joint.
Joined(S) ==
    S \cup {joint_builders[k].body2 : k \in {n \in DOMAIN joint_builders :
                                            joint_builders[n].body1 \in S}}
      \cup {joint_builders[k].body1 : k \in {n \in DOMAIN joint_builders :
                                            joint_builders[n].body2 \in S}}

\* C19: in every spawned piece the 4 cells are pairwise distinct, every joint
\* binds two edge-adjacent cells (|dx| + |dy| = 1), the joints connect all 4
\* blocks, and the two anchors of a joint are the same world point at spawn:
\* position of block i + anchor_1 = position of block j + anchor_2.
C19_JointsOnSharedEdges ==
    Len(body_builders) = 4 =>
        /\ \A a, b \in 1..4 :
              (body_builders[a].lane = body_builders[b].lane
                  /\ body_builders[a].row = body_builders[b].row) => a = b
        /\ Len(joint_builders) \in {3, 4}
        /\ \A k \in DOMAIN joint_builders :
              LET bi == body_builders[joint_builders[k].body1]
                  bj == body_builders[joint_builders[k].body2]
              IN  /\ Abs(bj.lane - bi.lane) + Abs(bj.row - bi.row) = 1
                  /\ bi.x + joint_builders[k].anchor_1[1] =
                         bj.x + joint_builders[k].anchor_2[1]
                  /\ bi.y + joint_builders[k].anchor_1[2] =
                         bj.y + joint_builders[k].anchor_2[2]
        /\ Joined(Joined(Joined({1}))) = 1..4

\* A piece with a horizontal and a vertical joint has been spawned on a board
\* with an odd number of lanes; the anchors of the vertical joint point down from
\* the upper block and up from the lower one.
C19_Witness ==
    /\ pc = "tetromino_movement"
    /\ Len(body_builders) = 4
    /\ board.n_lanes = 5
    /\ \E k \in DOMAIN joint_builders :
          /\ joint_builders[k].anchor_1 = <<0, -(BLOCK_PX_SIZE \div 2)>>
          /\ joint_builders[k].anchor_2 = <<0, BLOCK_PX_SIZE \div 2>>
    /\ \E k \in DOMAIN joint_builders :
          joint_builders[k].anchor_1 = <<BLOCK_PX_SIZE \div 2, 0>>

\* ---- C20 --------------------------------------------------------------------
\* The blocks of the spawned piece lie in the cells that layout(kind) gives,
\* counted from lane n_lanes / 2 - 1 and row n_rows - 1.
PlacedByLayout ==
    \E kind \in TetrominoKind :
        \A i \in 1..4 :
            /\ body_builders[i].lane =
                  (board.n_lanes \div 2) - 1 + layout(kind).coords[i][1]
            /\ body_builders[i].row = board.n_rows - 1 + layout(kind).coords[i][2]

\* C20 as stated: on every board with at least 4 lanes and 4 rows, each block of
\* a spawned piece is placed in cell (n_lanes / 2 - 1 + x, n_rows - 1 + y) with
\* 0 <= lane < n_lanes and 0 <= row < n_rows.
C20_SpawnInsideBoard ==
    Len(body_builders) = 4 =>
        /\ PlacedByLayout
        /\ \A i \in 1..4 :
              /\ 0 <= body_builders[i].lane /\ body_builders[i].lane < board.n_lanes
              /\ 0 <= body_builders[i].row /\ body_builders[i].row < board.n_rows

\* C20 (amended): on every board with at least 4 lanes and 4 rows, each block of
\* a spawned piece is placed in cell (n_lanes / 2 - 1 + x, n_rows - 1 + y) with
\* 0 <= lane < n_lanes and 0 <= row <= n_rows; a block is placed in row n_rows,
\* one row above the board, only as the first block of the I piece.
C20_SpawnAtTop ==
    Len(body_builders) = 4 =>
        /\ PlacedByLayout
        /\ \A i \in 1..4 :
              /\ 0 <= body_builders[i].lane /\ body_builders[i].lane < board.n_lanes
              /\ 0 <= body_builders[i].row /\ body_builders[i].row <= board.n_rows
              /\ body_builders[i].row = board.n_rows =>
                    /\ i = 1
                    /\ \A a \in 1..4 :
                          /\ body_builders[a].lane = body_builders[1].lane
                          /\ body_builders[a].row = board.n_rows - (a - 1)

\* An I piece has been spawned on a 4 x 4 board: its first block lies in row 4,
\* the other three in rows 3, 2 and 1 of lane 2.
C20_Witness ==
    /\ pc = "tetromino_movement"
    /\ board = [n_lanes |-> 4, n_rows |-> 4]
    /\ Len(body_builders) = 4
    /\ \A i \in 1..4 : body_builders[i].lane = 2 /\ body_builders[i].row = 5 - i

====
